---- MODULE Spec2Model ----
(***************************************************************************)
(* A model of openclaw-line-connect:                                       *)
(*   - TunnelManager (src/tunnel_manager.py): the supervisor of the        *)
(*     cloudflared subprocess, with its start(), stop(), monitor task and  *)
(*     reconnection loop;                                                  *)
(*   - LocalProxy / MoltbotCLIClient (src/local_proxy.py): the webhook     *)
(*     relay and the agent invoker.                                        *)
(*                                                                         *)
(* Scheduling is asyncio's: one thread, tasks interleave only at an await  *)
(* that suspends.  Every action below is the code a task runs from one     *)
(* suspension point to the next.                                           *)
(***************************************************************************)
EXTENDS Integers, Sequences, FiniteSets, TLC

(***************************************************************************)
(* Bounds of the model.                                                    *)
(***************************************************************************)
\* Number of tunnel subprocesses that may be spawned in one behaviour.
MaxProcs == 3
\* Number of monitor tasks that may be created in one behaviour.
MaxMonitors == 2
\* TunnelManager(max_retries=...): the retry bound of the supervisor.
MaxRetries == 2

\* The entries kept of the log of an outage.
MaxLog == 3

Procs == 1..MaxProcs
Monitors == 1..MaxMonitors
\* Task 0 is the coroutine of start(); tasks 1.. are monitor tasks.
Caller == 0
Tasks == {Caller} \cup Monitors
\* Python's None for a process handle, a task handle, a URL, a timestamp.
None == 0

VARIABLES
    \* ---- TunnelManager fields (src/tunnel_manager.py:56-82)
    process,        \* self.process: None or the handle of a spawned subprocess
    tunnel_url,     \* self.tunnel_url: None or the URL (named by the process that printed it)
    should_run,     \* self._should_run
    monitor_task,   \* self._monitor_task: None or a monitor task
    retry_count,    \* self._retry_count
    max_retries,    \* self.max_retries
    stats,          \* self.stats
    \* ---- the environment and the event loop
    procs,          \* every subprocess ever spawned: "none", "alive", "exited", "closed"
    task,           \* per task: where it is suspended (pc) and the process it awaits (on)
    cancelled,      \* monitor tasks with a pending Task.cancel()
    stopper,        \* the coroutine of stop(): pc, the task or process it awaits (on)
    cb_fails,       \* the callbacks of the orchestrator that raise when they are called
    \* ---- history, read by the properties only
    hist,
    \* ---- LocalProxy and MoltbotCLIClient fields (src/local_proxy.py:29, 147)
    message_count,      \* self._message_count
    cached_executable,  \* self.client._cached_executable
    \* ---- the environment of the relay
    on_path,            \* the binary names shutil.which finds
    on_disk,            \* the installation paths that exist and are executable
    uuids,              \* how many uuid4 values were drawn
    reqs,               \* per webhook request: its body, where its handler is, its outcome
    \* ---- reply-text assembly on its own
    in_payloads,        \* a payload list returned by the agent
    out_reply,          \* the reply text extracted from it
    \* ---- endpoint acquisition on its own
    acq,                \* the loop of _start_tunnel over the lines of the subprocess
    \* ---- executable lookup on its own
    resolved            \* what each call of _detect_executable returned, in order

tvars == <<process, tunnel_url, should_run, monitor_task, retry_count, max_retries, stats,
           procs, task, cancelled, stopper, cb_fails, hist>>

rvars == <<message_count, cached_executable, on_path, on_disk, uuids, reqs>>

pvars == <<in_payloads, out_reply>>

avars == <<acq>>

lvars == <<resolved>>

vars == <<tvars, rvars, pvars, avars, lvars>>

(***************************************************************************)
(* The state as one record, so that the code between two suspension points *)
(* can be written as a function from state to state.                       *)
(***************************************************************************)
Cur ==
    [process |-> process, tunnel_url |-> tunnel_url, should_run |-> should_run,
     monitor_task |-> monitor_task, retry_count |-> retry_count,
     max_retries |-> max_retries, stats |-> stats,
     procs |-> procs, task |-> task, cancelled |-> cancelled, stopper |-> stopper,
     cb_fails |-> cb_fails, hist |-> hist]

\* A monitor task that loops without reaching an await keeps the event loop: no
\* other task, timer or callback of the loop runs.
Hogged == \E m \in Monitors : task[m].pc = "spin"

Becomes(s) ==
    /\ ~Hogged
    /\ process' = s.process
    /\ tunnel_url' = s.tunnel_url
    /\ should_run' = s.should_run
    /\ monitor_task' = s.monitor_task
    /\ retry_count' = s.retry_count
    /\ max_retries' = s.max_retries
    /\ stats' = s.stats
    /\ procs' = s.procs
    /\ task' = s.task
    /\ cancelled' = s.cancelled
    /\ stopper' = s.stopper
    /\ cb_fails' = s.cb_fails
    /\ hist' = s.hist
    /\ UNCHANGED <<rvars, pvars, avars, lvars>>

Idle == [pc |-> "idle", on |-> None]

NoCallbacks == [connect |-> 0, disconnect |-> 0, reconnect |-> 0, error |-> 0]

\* log: what the supervisor did first in the outage, in its order: "count" (the
\* disconnect counter incremented), "attempt" (a reconnect attempt begun), and the
\* names of the callbacks called.
NoOutage == [exits |-> 0, timeouts |-> 0, attempts |-> 0, log |-> <<>>]

\* on_reconnect was not called yet.
NoReconnect == [url |-> None, attempt |-> 0]

\* outcome: "none", "running", "returned", "raised"; events: in their order, "url"
\* (the endpoint recorded), "connect" (the callback fired), "monitor" (the task made).
NoStart == [outcome |-> "none", events |-> <<>>, spawns |-> 0]

\* TunnelManager.__init__: nothing spawned, nothing running.
CallbackFailures ==
    {{}, {"connect"}, {"disconnect"}, {"reconnect"}, {"error"}, {"disconnect", "error"}}

\* TunnelManager(max_retries=MaxRetries)
RetriesDefault == max_retries = MaxRetries

\* TunnelManager(max_retries=n), for every n up to MaxRetries, 0 included.
RetriesAny == max_retries \in 0..MaxRetries

\* The callbacks of the orchestrator return.
CallbacksReturn == cb_fails = {}

\* Some callbacks of the orchestrator raise (their config file cannot be written).
CallbacksMayRaise == cb_fails \in CallbackFailures

TunnelInit ==
    /\ process = None
    /\ tunnel_url = None
    /\ should_run = FALSE
    /\ monitor_task = None
    /\ retry_count = 0
    /\ stats = [connected_at |-> None, disconnected_count |-> 0,
                reconnect_count |-> 0, last_error |-> "None"]
    /\ procs = [p \in Procs |-> "none"]
    /\ task = [t \in Tasks |-> Idle]
    /\ cancelled = {}
    /\ stopper = Idle
    /\ hist = [state |-> "Disconnected",  \* the state of the TunnelSession (spec section 4.4)
               cb |-> NoCallbacks,        \* how often each callback was fired
               attempts |-> 0,            \* iterations of the reconnection loop, in total
               failed |-> FALSE,          \* the retry bound was exhausted, no start() since
               failedN |-> 0,             \* executions of line 255 since the last start()
               stop |-> "no",             \* the last stop(): "no", "called", "returned", "raised"
               stops |-> 0,               \* calls of stop() since the last call of start(): 0, 1, 2 or more
               outage |-> NoOutage,       \* the current reconnection procedure
               rc_done |-> FALSE,         \* that procedure has returned to the monitor
               start |-> NoStart,         \* the last start(): its outcome and what it did
               last_cb |-> "none",        \* the callback that was called last
               detected |-> [p \in Procs |-> 0],  \* per subprocess: exits detected (0, 1, 2 or more)
               reconnected |-> NoReconnect,      \* the arguments of the last on_reconnect
               abandoned |-> 0,           \* reconnect attempts ended by a cancellation
               own |-> [m \in Monitors |-> 0]]   \* per monitor: attempts of its own procedure

(***************************************************************************)
(* Subprocesses.  A spawned process is "alive"; once it has exited its     *)
(* returncode is set ("exited"), and once asyncio has also seen its pipes  *)
(* close, the transport is closed ("closed").  Process.terminate() and     *)
(* Process.kill() raise ProcessLookupError on a closed transport and are   *)
(* silent on an exited process whose transport is still open.              *)
(***************************************************************************)
Spawned(s) == {p \in Procs : s.procs[p] # "none"}

NextProc(s) == Cardinality(Spawned(s)) + 1

CanSpawn(s) == NextProc(s) <= MaxProcs

\* process.returncode is not None
HasExited(s, p) == s.procs[p] \in {"exited", "closed"}

\* self.process.terminate() / self.process.kill() raise ProcessLookupError
SignalRaises(s) == s.procs[s.process] = "closed"

\* self.process.kill() on a transport that is still open
Kill(s) == [s EXCEPT !.procs[s.process] = "exited"]

Created(s) == {m \in Monitors : s.task[m].pc # "idle"}

NextMonitor(s) == Cardinality(Created(s)) + 1

\* The log of the outage with one more entry (only its first entries are kept).
Logged(log, entry) == IF Len(log) < MaxLog THEN Append(log, entry) ELSE log

\* The callback is called (lines 198-199, 240-241, 250-251, 283-284).
Fire(s, name) ==
    [s EXCEPT !.hist.cb[name] = @ + 1, !.hist.last_cb = name,
              !.hist.outage.log = IF name = "connect" THEN @ ELSE Logged(@, name)]

\* The call of the callback raises.
Raises(s, name) == name \in s.cb_fails

\* An exception leaves _monitor_tunnel: the monitor task ends with it.
Crash(s, m) == [s EXCEPT !.task[m] = [pc |-> "crashed", on |-> None]]

\* _monitor_tunnel, lines 214-217, after an exception inside its try: on_error is
\* called; the loop then goes on at line 190 without an await, where the exited
\* process is found again and the same exception is raised again, for ever.
MonExcept(s, m, err) ==
    LET s1 == Fire([s EXCEPT !.stats.last_error = err], "error")
    IN  IF Raises(s, "error")
        THEN Crash(s1, m)
        ELSE [s1 EXCEPT !.task[m] = [pc |-> "spin", on |-> None]]

(***************************************************************************)
(* _start_tunnel, run by start() (task 0) and by _reconnect (a monitor).   *)
(***************************************************************************)
\* Lines 141-156: the binary is installed, so _ensure_cloudflared returns without
\* suspending; create_subprocess_exec forks the child and suspends before the
\* handle is assigned to self.process.
StartTunnel(s, t) ==
    [s EXCEPT !.procs[NextProc(s)] = "alive",
              !.task[t] = [pc |-> "spawn", on |-> NextProc(s)],
              !.hist.start.spawns = IF t = Caller THEN @ + 1 ELSE @]

\* start(), lines 283-289: the connect callback, then the monitor task.
StartReturns(s) ==
    LET m == NextMonitor(s)
        s1 == Fire([s EXCEPT !.hist.start.events = Append(@, "connect")], "connect")
    IN  IF Raises(s, "connect")
        THEN [s1 EXCEPT !.task[Caller] = Idle, !.hist.start.outcome = "raised"]
        ELSE [s1 EXCEPT !.monitor_task = m,
                        !.task[m] = [pc |-> "created", on |-> None],
                        !.task[Caller] = Idle,
                        !.hist.start.events = Append(@, "monitor"),
                        !.hist.start.outcome = "returned"]

\* Seeded fault: start() spawns the binary again when _start_tunnel raises.
StartRaisesRetrying(s, err) ==
    IF CanSpawn(s)
    THEN StartTunnel(s, Caller)
    ELSE [s EXCEPT !.task[Caller] = Idle, !.hist.state = "Disconnected",
                   !.hist.start.outcome = "raised"]

\* start(): an exception of _start_tunnel propagates to the caller of start().
StartRaises(s, err) ==
    [s EXCEPT !.task[Caller] = Idle, !.hist.state = "Disconnected",
              !.hist.start.outcome = "raised"]

\* _reconnect, lines 243-244, then _monitor_tunnel line 205.
RcReturns(s, m) ==
    [s EXCEPT !.retry_count = 0,
              !.task[m] = [pc |-> "sleep", on |-> None],
              !.hist.rc_done = TRUE]

\* _reconnect, lines 253-255, then _monitor_tunnel line 205.
RcEnd(s, m) ==
    LET s1 == [s EXCEPT !.task[m] = [pc |-> "sleep", on |-> None],
                        !.hist.rc_done = TRUE]
    IN  IF s.retry_count >= s.max_retries
        THEN [s1 EXCEPT !.should_run = FALSE,
                        !.hist.state = "Failed",
                        !.hist.failed = TRUE,
                        !.hist.failedN = @ + 1]
        ELSE s1

RECURSIVE RcLoop(_, _)
\* _reconnect, lines 246-251: the except clause, then the next iteration.
\* An on_error that raises leaves _reconnect and is caught at line 214.
RcExcept(s, m, err) ==
    LET s1 == Fire([s EXCEPT !.stats.last_error = err], "error")
        s2 == [s1 EXCEPT !.hist.outage.exits =
                             IF err = "Tunnel startup failed" THEN @ + 1 ELSE @,
                         !.hist.outage.timeouts =
                             IF err = "Timeout waiting for tunnel URL" THEN @ + 1 ELSE @]
    IN  IF Raises(s, "error") THEN MonExcept(s2, m, "callback") ELSE RcLoop(s2, m)

\* _reconnect, lines 237-241: the new tunnel is up; an on_reconnect that raises is
\* caught at line 246.
RcSuccess(s, m) ==
    LET s1 == Fire([s EXCEPT !.stats.reconnect_count = @ + 1,
                             !.hist.reconnected = [url |-> s.tunnel_url,
                                                   attempt |-> s.retry_count]],
                   "reconnect")
    IN  IF Raises(s, "reconnect") THEN RcExcept(s1, m, "callback") ELSE RcReturns(s1, m)

\* _reconnect, lines 223-232: one iteration up to its first suspension, with
\* _stop_process (lines 259-262) inlined.
RcLoop(s, m) ==
    IF s.should_run /\ s.retry_count < s.max_retries
    THEN LET s1 == [s EXCEPT !.retry_count = @ + 1,
                             !.hist.attempts = @ + 1,
                             !.hist.outage.attempts = @ + 1,
                             !.hist.outage.log = Logged(@, "attempt"),
                             !.hist.own[m] = @ + 1]
         IN  IF s1.process = None
             THEN [s1 EXCEPT !.task[m] = [pc |-> "rc_delay", on |-> None]]
             ELSE IF SignalRaises(s1)
             THEN RcExcept(s1, m, "ProcessLookupError")
             ELSE [s1 EXCEPT !.task[m] = [pc |-> "rc_stop", on |-> s1.process]]
    ELSE RcEnd(s, m)

\* _reconnect, line 221.
Reconnect(s, m) == RcLoop([s EXCEPT !.retry_count = 0, !.hist.own[m] = 0], m)

\* _monitor_tunnel, lines 193-199: the exit of self.process is detected, counted and
\* reported to on_disconnect.
Detected(s) ==
    Fire([s EXCEPT !.stats.disconnected_count = @ + 1,
                   !.hist.state = "Reconnecting",
                   !.hist.outage = [NoOutage EXCEPT !.exits = 1, !.log = <<"count">>],
                   !.hist.rc_done = FALSE,
                   !.hist.detected[s.process] = IF @ < 2 THEN @ + 1 ELSE @],
         "disconnect")

\* _monitor_tunnel, lines 190-205: the top of the loop up to the next suspension.
MonLoop(s, m) ==
    IF ~s.should_run
    THEN [s EXCEPT !.task[m] = [pc |-> "done", on |-> None]]
    ELSE IF s.process # None /\ HasExited(s, s.process)
    THEN LET s2 == Detected(s)
         IN  IF Raises(s, "disconnect")
             THEN MonExcept(s2, m, "callback")
             ELSE Reconnect(s2, m)
    ELSE [s EXCEPT !.task[m] = [pc |-> "sleep", on |-> None]]

\* An exception leaves _start_tunnel: to start()'s caller, or to _reconnect's except.
Raise(s, t, err) ==
    IF t = Caller THEN StartRaises(s, err) ELSE RcExcept(s, t, err)

\* _start_tunnel returns the URL: to start(), or to _reconnect.
Return(s, t) ==
    IF t = Caller THEN StartReturns(s) ELSE RcSuccess(s, t)

\* Lines 181-186: the line matches; the URL is named by the process that wrote it.
UrlMatched(s, t) ==
    Return([s EXCEPT !.tunnel_url = s.task[t].on,
                     !.stats.connected_at = s.task[t].on,
                     !.hist.state = "Connected",
                     !.hist.start.events = IF t = Caller THEN Append(@, "url") ELSE @], t)

\* Lines 164-167: the 30 s are over.
StartupTimeout(s, t) ==
    IF s.process # None /\ SignalRaises(s)
    THEN Raise(s, t, "ProcessLookupError")
    ELSE Raise(s, t, "Timeout waiting for tunnel URL")

\* Lines 177-178: readline returned b"": self.process.communicate() is awaited.
StreamClosed(s, t) ==
    IF s.process = None
    THEN Raise(s, t, "AttributeError")
    ELSE [s EXCEPT !.task[t] = [pc |-> "comm", on |-> s.process]]

\* Lines 169-175: wait_for timed out after 1 s, the loop reads self.process.stderr again.
ReadAgain(s, t) ==
    IF s.process = None
    THEN Raise(s, t, "AttributeError")
    ELSE [s EXCEPT !.task[t].on = s.process]

(***************************************************************************)
(* stop() and _stop_process as called by stop().                           *)
(***************************************************************************)
\* Seeded fault: stop() also resets the attempt counter and the statistics.
StopReturnsResetting(s) ==
    [s EXCEPT !.tunnel_url = None, !.stopper = Idle,
              !.hist.stop = "returned", !.hist.state = "Disconnected",
              !.retry_count = 0, !.stats.connected_at = None]

\* stop(), line 306.
StopReturns(s) ==
    [s EXCEPT !.tunnel_url = None, !.stopper = Idle,
              !.hist.stop = "returned", !.hist.state = "Disconnected"]

\* An exception leaves stop() (nothing in stop() catches it).
StopRaises(s, err) == [s EXCEPT !.stopper = Idle, !.hist.stop = "raised"]

\* stop(), line 305: _stop_process, lines 259-262.
StopProcess(s) ==
    IF s.process = None
    THEN StopReturns(s)
    ELSE IF SignalRaises(s)
    THEN StopRaises(s, "ProcessLookupError")
    ELSE [s EXCEPT !.stopper = [pc |-> "wait", on |-> s.process]]

\* stop(), line 302, after the monitor task was awaited.
StopJoined(s) == StopProcess([s EXCEPT !.monitor_task = None])

\* stop(), lines 293-299.
Stop(s) ==
    LET s1 == [s EXCEPT !.should_run = FALSE, !.hist.stop = "called",
                        !.hist.stops = IF @ < 2 THEN @ + 1 ELSE @]
        m == s.monitor_task
    IN  IF m = None
        THEN StopProcess(s1)
        ELSE IF s.task[m].pc = "done"
        THEN StopJoined(s1)
        ELSE IF s.task[m].pc = "crashed"
        THEN StopRaises(s1, "callback")
        ELSE [s1 EXCEPT !.cancelled = @ \cup {m},
                        !.stopper = [pc |-> "join", on |-> m]]

\* _stop_process, lines 263-265, after the wait of 5 s timed out.
KillAndClear(s) == [Kill(s) EXCEPT !.process = None]

(***************************************************************************)
(* The actions of the supervisor: one per resumption of a task.            *)
(***************************************************************************)
Running(t) == t \notin cancelled

\* The event loop runs what is ready before it waits for a timer, for input or for a
\* child: a task that was just created or cancelled, a task whose awaited task has
\* finished, and a create_subprocess_exec that only waits for its pipes.
Ready ==
    \/ \E m \in Monitors : task[m].pc = "created" \/ m \in cancelled
    \/ \E t \in Tasks : task[t].pc = "spawn"
    \/ stopper.pc = "join" /\ task[stopper.on].pc = "done"

\* Nothing is ready: the loop waits for the next timer, line of output or exit.
Settled == ~Ready

\* start(local_port) is called: lines 277-281 and _start_tunnel up to the spawn.
\* The caller starts a supervisor that is Disconnected or Failed, and calls
\* neither start() nor stop() while a call of the same kind is in progress.
StartCall ==
    /\ Settled
    /\ task[Caller].pc = "idle"
    /\ stopper.pc = "idle"
    /\ hist.state \in {"Disconnected", "Failed"}
    /\ CanSpawn(Cur)
    /\ NextMonitor(Cur) <= MaxMonitors
    /\ Becomes(StartTunnel([Cur EXCEPT !.should_run = TRUE,
                                       !.hist.state = "Connecting",
                                       !.hist.failed = FALSE,
                                       !.hist.failedN = 0,
                                       !.hist.stop = "no",
                                       !.hist.stops = 0,
                                       !.hist.start = [NoStart EXCEPT
                                                          !.outcome = "running"]],
                           Caller))

\* create_subprocess_exec returns: line 152 assigns the handle, line 170 awaits a line.
Spawned_(t) ==
    /\ task[t].pc = "spawn"
    /\ Running(t)
    /\ Becomes([Cur EXCEPT !.process = task[t].on, !.task[t].pc = "read"])

\* The subprocess writes the line with its URL to stderr.
ReadUrl(t) ==
    /\ Settled
    /\ task[t].pc = "read"
    /\ Running(t)
    /\ procs[task[t].on] = "alive"
    /\ Becomes(UrlMatched(Cur, t))

\* The stderr of the subprocess reaches end of file: the subprocess has exited.
ReadEof(t) ==
    /\ Settled
    /\ task[t].pc = "read"
    /\ Running(t)
    /\ HasExited(Cur, task[t].on)
    /\ Becomes(StreamClosed(Cur, t))

\* No URL within 30 s.
ReadTimeout(t) ==
    /\ Settled
    /\ task[t].pc = "read"
    /\ Running(t)
    /\ procs[task[t].on] = "alive"
    /\ Becomes(StartupTimeout(Cur, t))

\* No line within 1 s, and self.process is no longer the process that was read.
ReadRetry(t) ==
    /\ Settled
    /\ task[t].pc = "read"
    /\ Running(t)
    /\ procs[task[t].on] = "alive"
    /\ process # task[t].on
    /\ Becomes(ReadAgain(Cur, t))

\* communicate() returns: line 179 raises "Tunnel startup failed".
CommDone(t) ==
    /\ Settled
    /\ task[t].pc = "comm"
    /\ Running(t)
    /\ HasExited(Cur, task[t].on)
    /\ Becomes(Raise(Cur, t, "Tunnel startup failed"))

\* The monitor task runs for the first time.
MonStart(m) ==
    /\ task[m].pc = "created"
    /\ Running(m)
    /\ Becomes(MonLoop(Cur, m))

\* asyncio.sleep(5) of the monitor returns (lines 205-210).
MonWake(m) ==
    /\ Settled
    /\ task[m].pc = "sleep"
    /\ Running(m)
    /\ Becomes(MonLoop(Cur, m))

\* _stop_process in _reconnect: the terminated process has exited (lines 262, 265, 232).
RcStopped(m) ==
    /\ Settled
    /\ task[m].pc = "rc_stop"
    /\ Running(m)
    /\ HasExited(Cur, task[m].on)
    /\ Becomes([Cur EXCEPT !.process = None,
                           !.task[m] = [pc |-> "rc_delay", on |-> None]])

\* _stop_process in _reconnect: no exit within 5 s (lines 263-265, 232).
RcStopTimeout(m) ==
    /\ Settled
    /\ task[m].pc = "rc_stop"
    /\ Running(m)
    /\ procs[task[m].on] = "alive"
    /\ Becomes(IF process = None
               THEN RcExcept(Cur, m, "AttributeError")
               ELSE IF SignalRaises(Cur)
               THEN RcExcept(Cur, m, "ProcessLookupError")
               ELSE [KillAndClear(Cur) EXCEPT
                        !.task[m] = [pc |-> "rc_delay", on |-> None]])

\* asyncio.sleep(retry_delay) returns: line 235 starts a new tunnel.
RcDelayDone(m) ==
    /\ Settled
    /\ task[m].pc = "rc_delay"
    /\ Running(m)
    /\ CanSpawn(Cur)
    /\ Becomes(StartTunnel(Cur, m))

\* CancelledError is thrown into a monitor task: lines 212-213.  A task that was
\* suspended in create_subprocess_exec has its child killed by asyncio; a task that
\* never ran is cancelled without running.
MonCancelled(m) ==
    /\ m \in cancelled
    /\ Becomes([Cur EXCEPT
           !.cancelled = @ \ {m},
           !.task[m] = [pc |-> "done", on |-> None],
           !.hist.abandoned = IF task[m].pc \in {"rc_stop", "rc_delay", "spawn", "read", "comm"}
                              THEN @ + 1 ELSE @,
           !.procs = IF task[m].pc = "spawn"
                     THEN [@ EXCEPT ![task[m].on] = "closed"]
                     ELSE @])

\* stop() is called.
StopCall ==
    /\ stopper.pc = "idle"
    /\ Becomes(Stop(Cur))

\* stop(): the awaited monitor task has finished.
StopJoin ==
    /\ stopper.pc = "join"
    /\ task[stopper.on].pc = "done"
    /\ Becomes(StopJoined(Cur))

\* stop(): the terminated process has exited (lines 262, 265, 306).
StopWaited ==
    /\ Settled
    /\ stopper.pc = "wait"
    /\ HasExited(Cur, stopper.on)
    /\ Becomes(StopReturns([Cur EXCEPT !.process = None]))

\* stop(): no exit within 5 s (lines 263-265, 306).
StopWaitTimeout ==
    /\ Settled
    /\ stopper.pc = "wait"
    /\ procs[stopper.on] = "alive"
    /\ Becomes(IF process = None
               THEN StopRaises(Cur, "AttributeError")
               ELSE IF SignalRaises(Cur)
               THEN StopRaises(Cur, "ProcessLookupError")
               ELSE StopReturns(KillAndClear(Cur)))

\* A subprocess exits by itself (or after the SIGTERM it was sent).
ProcExit(p) ==
    /\ Settled
    /\ procs[p] = "alive"
    /\ procs' = [procs EXCEPT ![p] = "exited"]
    /\ UNCHANGED <<process, tunnel_url, should_run, monitor_task, retry_count, max_retries,
                   stats, task, cancelled, stopper, cb_fails, hist, rvars, pvars, avars, lvars>>

\* asyncio sees the pipes of an exited subprocess close and closes its transport.
TransportClosed(p) ==
    /\ Settled
    /\ ~Hogged
    /\ procs[p] = "exited"
    /\ procs' = [procs EXCEPT ![p] = "closed"]
    /\ UNCHANGED <<process, tunnel_url, should_run, monitor_task, retry_count, max_retries,
                   stats, task, cancelled, stopper, cb_fails, hist, rvars, pvars, avars, lvars>>

TunnelNext ==
    \/ StartCall
    \/ StopCall
    \/ StopJoin
    \/ StopWaited
    \/ StopWaitTimeout
    \/ \E t \in Tasks : Spawned_(t)
    \/ \E t \in Tasks : ReadUrl(t)
    \/ \E t \in Tasks : ReadEof(t)
    \/ \E t \in Tasks : ReadTimeout(t)
    \/ \E t \in Tasks : ReadRetry(t)
    \/ \E t \in Tasks : CommDone(t)
    \/ \E m \in Monitors : MonStart(m)
    \/ \E m \in Monitors : MonWake(m)
    \/ \E m \in Monitors : RcStopped(m)
    \/ \E m \in Monitors : RcStopTimeout(m)
    \/ \E m \in Monitors : RcDelayDone(m)
    \/ \E m \in Monitors : MonCancelled(m)
    \/ \E p \in Procs : ProcExit(p)
    \/ \E p \in Procs : TransportClosed(p)

(***************************************************************************)
(* Text.  A Python str is a sequence of one-character strings.             *)
(***************************************************************************)
IsSpace(c) == c \in {" ", "\n", "\t"}

RECURSIVE LStrip(_)
LStrip(s) == IF s # <<>> /\ IsSpace(Head(s)) THEN LStrip(Tail(s)) ELSE s

RECURSIVE RStrip(_)
RStrip(s) ==
    IF s # <<>> /\ IsSpace(s[Len(s)]) THEN RStrip(SubSeq(s, 1, Len(s) - 1)) ELSE s

\* str.strip()
Strip(s) == RStrip(LStrip(s))

\* A payload of the agent's result: p.get('text') is None when there is no text key.
NoTextPayload == [has |-> FALSE, text |-> <<>>]

TextPayload(s) == [has |-> TRUE, text |-> s]

\* `if p.get('text')`: the key is there and the string is not empty.
Truthy(p) == p.has /\ p.text # <<>>

RECURSIVE ConcatenateAll(_, _)
\* Seeded fault: empty and missing texts are not skipped.
ConcatenateAll(reply_text, payloads) ==
    IF payloads = <<>>
    THEN reply_text
    ELSE ConcatenateAll(reply_text \o Head(payloads).text \o <<"\n">>, Tail(payloads))

RECURSIVE Concatenate(_, _)
\* handle_line_webhook, lines 223-227: reply_text += p.get('text') + "\n"
Concatenate(reply_text, payloads) ==
    IF payloads = <<>>
    THEN reply_text
    ELSE Concatenate(IF Truthy(Head(payloads))
                     THEN reply_text \o Head(payloads).text \o <<"\n">>
                     ELSE reply_text,
                     Tail(payloads))

\* handle_line_webhook, lines 223-227: the accumulated reply_text.
ReplyText(payloads) == Concatenate(<<>>, payloads)

\* handle_line_webhook, line 238: the text of the response.
ResponseText(payloads) == Strip(ReplyText(payloads))

(***************************************************************************)
(* MoltbotCLIClient.                                                       *)
(***************************************************************************)
\* Seeded fault: the binary names are tried in the reverse order.
CandidatesReversed == <<"moltbot", "openclaw", "clawdbot">>

\* _detect_executable, line 36
Candidates == <<"clawdbot", "openclaw", "moltbot">>

\* _detect_executable, lines 46-59
InstallPaths ==
    <<"~/go/bin/clawdbot", "~/go/bin/openclaw", "~/go/bin/moltbot",
      "/usr/local/bin/clawdbot", "/usr/local/bin/openclaw", "/usr/local/bin/moltbot",
      "/opt/homebrew/bin/clawdbot", "/opt/homebrew/bin/openclaw",
      "/opt/homebrew/bin/moltbot">>

NoExecutable == "None"

\* The first element of seq that is in set, or NoExecutable.
FirstIn(seq, set) ==
    LET hits == {i \in 1..Len(seq) : seq[i] \in set}
    IN  IF hits = {} THEN NoExecutable
        ELSE seq[CHOOSE i \in hits : \A j \in hits : i <= j]

\* Seeded fault: the memoized result is never used.
DetectExecutableUncached(cache, path, disk) ==
    IF FirstIn(Candidates, path) # NoExecutable THEN FirstIn(Candidates, path)
    ELSE FirstIn(InstallPaths, disk)

\* _detect_executable, lines 33-66: the value returned.
DetectExecutable(cache, path, disk) ==
    IF cache # NoExecutable THEN cache
    ELSE IF FirstIn(Candidates, path) # NoExecutable THEN FirstIn(Candidates, path)
    ELSE FirstIn(InstallPaths, disk)

NoUserId == "None"

\* Seeded fault: one session shared by every user.
SessionIdShared(user_id) == <<"line", "main">>

\* run_agent, line 72: f"line:{user_id}"
SessionId(user_id) == <<"line", user_id>>

\* Seeded fault: the run id is the same for every invocation.
Uuid4Repeated(n) == 1

\* run_agent, line 73: the n-th value drawn from uuid4 (a fresh value each time).
Uuid4(n) == n + 1

\* create_subprocess_exec finds the executable it is given.
Installed(exe, path, disk) == exe \in path \/ exe \in disk

(***************************************************************************)
(* Webhook bodies, agent outputs and responses.                            *)
(***************************************************************************)
UserIds == {"U1", "U2", NoUserId}

\* msg: "text", "image" (a message with that type), "notype" (a message without a
\* type), "absent" (no event or no message), "notobject" (a message that is a string).
Bodies ==
    {[kind |-> "malformed", userId |-> NoUserId, msg |-> "absent"],
     [kind |-> "array", userId |-> NoUserId, msg |-> "absent"]}
    \cup [kind : {"object"}, userId : UserIds,
          msg : {"text", "image", "notype", "absent", "notobject"}]

\* The body is of the documented shape (spec section 6).
WellFormed(body) == body.kind = "object" /\ body.msg # "notobject"

\* Seeded fault: a message without a type is taken for a text message.
MessageTypeDefaultText(body) ==
    IF body.msg = "image" THEN "image" ELSE "text"

\* message.get('type')
MessageType(body) ==
    IF body.msg \in {"text", "image"} THEN body.msg ELSE "None"

\* A JSON document on the agent's stdout: an object (with result.payloads) or not.
Document(object, payloads) == [ok |-> TRUE, object |-> object, payloads |-> payloads]

NoDocument == Document(FALSE, <<>>)

\* What the agent subprocess does: its exit status, its stderr, and its stdout,
\* which is a JSON document (json, doc) or is not.
AgentOutputs ==
    {[exit |-> 1, stderr |-> <<"e", "\n">>, json |-> FALSE, doc |-> NoDocument],
     [exit |-> 1, stderr |-> <<>>, json |-> TRUE,
      doc |-> Document(TRUE, <<TextPayload(<<"a">>)>>)],
     [exit |-> 0, stderr |-> <<>>, json |-> FALSE, doc |-> NoDocument],
     [exit |-> 0, stderr |-> <<>>, json |-> TRUE, doc |-> Document(FALSE, <<>>)],
     [exit |-> 0, stderr |-> <<>>, json |-> TRUE, doc |-> Document(TRUE, <<>>)],
     [exit |-> 0, stderr |-> <<"e", "\n">>, json |-> TRUE,
      doc |-> Document(TRUE, <<TextPayload(<<"a">>), NoTextPayload, TextPayload(<<"b">>)>>)],
     [exit |-> 0, stderr |-> <<>>, json |-> TRUE,
      doc |-> Document(TRUE, <<TextPayload(<<" ">>)>>)]}

\* No subprocess has ended for the request.
NoOutput == [exit |-> 0, stderr |-> <<>>, json |-> FALSE, doc |-> NoDocument]

\* run_agent has not returned for the request.
NoResult == [returned |-> FALSE]

NoInvocation == [called |-> FALSE]

NoResponse == [status |-> 0]

JsonNull == [null |-> TRUE]

NoRequest ==
    [pc |-> "none", body |-> [kind |-> "malformed", userId |-> NoUserId, msg |-> "absent"],
     inv |-> NoInvocation, spawned |-> 0, hung |-> FALSE, out |-> NoOutput,
     result |-> NoResult, resp |-> NoResponse]

\* web.json_response(json, status=status)
JsonResponse(status, json) == [status |-> status, json |-> json]

\* Seeded fault: a malformed body is answered as an internal fault.
InvalidJsonAsFault == [status |-> 500, json |-> [error |-> "Invalid JSON"]]

\* handle_line_webhook, lines 254-255
InvalidJson == JsonResponse(400, [error |-> "Invalid JSON"])

\* Seeded fault: an internal fault is answered as an empty success.
InternalFaultAsSuccess(e) == [status |-> 200, json |-> [success |-> TRUE]]

\* handle_line_webhook, lines 256-258
InternalFault(e) == JsonResponse(500, [error |-> e])

\* handle_line_webhook, lines 249-252
NonTextReply ==
    JsonResponse(200, [success |-> TRUE, reason |-> "Non-text message not yet supported"])

\* handle_line_webhook, lines 219-245: the response to the dict run_agent returned.
\* ok = FALSE is one of the {'ok': False, 'error': ...} dicts of run_agent.
ReplyTo(result) ==
    IF ~result.object
    THEN InternalFault("AttributeError")
    ELSE IF ReplyText(result.payloads) # <<>>
    THEN JsonResponse(200, [success |-> TRUE,
                            response |-> [text |-> ResponseText(result.payloads),
                                          raw |-> result]])
    ELSE JsonResponse(200, [success |-> TRUE, response |-> JsonNull])

\* Seeded fault: a failure is returned as the text of its error.
FailureAsText(error) ==
    [ok |-> FALSE, error |-> error, object |-> TRUE,
     payloads |-> <<TextPayload(<<"e", "r", "r">>)>>]

\* run_agent: {'ok': False, 'error': error}
Failure(error) == [ok |-> FALSE, error |-> error, object |-> TRUE, payloads |-> <<>>]

\* run_agent, lines 114-129: the dict returned for what the subprocess did.
AgentResult(out) ==
    IF out.exit # 0 THEN Failure(Strip(out.stderr))
    ELSE IF ~out.json THEN Failure("Invalid CLI output")
    ELSE out.doc

(***************************************************************************)
(* LocalProxy: the webhook handler.  A handler runs from the arrival of    *)
(* its request to the response, suspended only while the agent subprocess  *)
(* runs (lines 108-114); handlers of different requests interleave there.  *)
(***************************************************************************)
MaxReqs == 2

Reqs == 1..MaxReqs

\* The environments the relay is started in.
PathEnvironments == {{}, {"openclaw"}, {"clawdbot", "moltbot"}}

DiskEnvironments == {{}, {"/usr/local/bin/moltbot", "/opt/homebrew/bin/clawdbot"}}

\* message.get('text', ''): the text of every text message of the model.
MessageText == "hello"

\* LocalProxy.__init__ (141-149) and MoltbotCLIClient.__init__ (26-29), no traffic yet.
RelayQuiet ==
    /\ message_count = 0
    /\ cached_executable = NoExecutable
    /\ uuids = 0
    /\ reqs = [r \in Reqs |-> NoRequest]
    /\ resolved = <<>>

RelayInit ==
    /\ RelayQuiet
    /\ on_path \in PathEnvironments
    /\ on_disk \in DiskEnvironments

RelayOff ==
    /\ RelayQuiet
    /\ on_path = {}
    /\ on_disk = {}

RCur ==
    [message_count |-> message_count, cached_executable |-> cached_executable,
     on_path |-> on_path, on_disk |-> on_disk, uuids |-> uuids, reqs |-> reqs]

RBecomes(s) ==
    /\ message_count' = s.message_count
    /\ cached_executable' = s.cached_executable
    /\ on_path' = s.on_path
    /\ on_disk' = s.on_disk
    /\ uuids' = s.uuids
    /\ reqs' = s.reqs
    /\ UNCHANGED <<tvars, pvars, avars, lvars>>

\* The handler of request r returns resp.
Respond(s, r, resp) == [s EXCEPT !.reqs[r].pc = "done", !.reqs[r].resp = resp]

\* handle_line_webhook, lines 196-197: user_id[:8] of the ids of the model is the id.
DisplayName(body) == IF body.userId = NoUserId THEN "Unknown" ELSE body.userId

\* run_agent returns result to the handler, which answers (lines 219-245).
Returned(s, r, result) ==
    Respond([s EXCEPT !.reqs[r].result = result], r, ReplyTo(result))

\* run_agent, lines 72-112, up to the suspension at create_subprocess_exec; the
\* paths that return without a subprocess go on through lines 219-245 of the handler.
RunAgent(s, r) ==
    LET body == s.reqs[r].body
        exe  == DetectExecutable(s.cached_executable, s.on_path, s.on_disk)
        s1   == [s EXCEPT !.uuids = @ + 1,
                          !.cached_executable = exe,
                          !.reqs[r].inv =
                              [called |-> TRUE,
                               message |-> <<"[LINE User: ", DisplayName(body), "] ",
                                             MessageText>>,
                               executable |-> exe,
                               sessionId |-> SessionId(body.userId),
                               idempotencyKey |-> Uuid4(s.uuids)]]
    IN  IF exe = NoExecutable
        THEN Returned(s1, r, Failure("Moltbot/OpenClaw executable not found via CLI"))
        ELSE IF ~Installed(exe, s.on_path, s.on_disk)
        THEN Returned(s1, r, Failure("FileNotFoundError"))
        ELSE [s1 EXCEPT !.reqs[r].pc = "agent", !.reqs[r].spawned = @ + 1]

\* Seeded fault: only the events that are forwarded to the agent are counted.
HandleLineWebhookCountingText(s, r, body) ==
    LET s0 == [s EXCEPT !.reqs[r].body = body]
        s1 == [s0 EXCEPT !.message_count = @ + 1]
    IN  IF body.kind = "malformed" THEN Respond(s0, r, InvalidJson)
        ELSE IF body.kind # "object" THEN Respond(s0, r, InternalFault("AttributeError"))
        ELSE IF body.msg = "notobject" THEN Respond(s0, r, InternalFault("AttributeError"))
        ELSE IF MessageType(body) = "text" THEN RunAgent(s1, r)
        ELSE Respond(s0, r, NonTextReply)

\* health_check, lines 166-172: the body of the answer to GET /health.
HealthCheck(s) == [status |-> "ok", gateway |-> "connected", message_count |-> s.message_count]

\* handle_line_webhook, lines 187-258, from the arrival of the body to the response
\* or to the suspension inside run_agent.
HandleLineWebhook(s, r, body) ==
    LET s0 == [s EXCEPT !.reqs[r].body = body]
        s1 == [s0 EXCEPT !.message_count = @ + 1]
    IN  IF body.kind = "malformed" THEN Respond(s0, r, InvalidJson)
        ELSE IF body.kind # "object" THEN Respond(s0, r, InternalFault("AttributeError"))
        ELSE IF body.msg = "notobject" THEN Respond(s1, r, InternalFault("AttributeError"))
        ELSE IF MessageType(body) = "text" THEN RunAgent(s1, r)
        ELSE Respond(s1, r, NonTextReply)

\* Seeded fault: a request waits until no agent subprocess is running.
ReceiveSerial(r, body) ==
    /\ reqs[r].pc = "none"
    /\ \A q \in Reqs : q < r => reqs[q].pc # "none"
    /\ \A q \in Reqs : reqs[q].pc # "agent"
    /\ RBecomes(HandleLineWebhook(RCur, r, body))

\* A POST /line-webhook arrives with this body.
Receive(r, body) ==
    /\ reqs[r].pc = "none"
    /\ \A q \in Reqs : q < r => reqs[q].pc # "none"
    /\ RBecomes(HandleLineWebhook(RCur, r, body))

\* The agent subprocess of request r ends: communicate() returns (lines 114-129)
\* and the handler goes on to its response (lines 219-245).
AgentExit(r, out) ==
    /\ reqs[r].pc = "agent"
    /\ ~reqs[r].hung
    /\ RBecomes(Returned([RCur EXCEPT !.reqs[r].out = out], r, AgentResult(out)))

\* The agent subprocess of request r will not exit by itself (it does not honour
\* its --timeout): communicate() (line 114) is awaited without a timeout of its own.
AgentHangs(r) ==
    /\ reqs[r].pc = "agent"
    /\ ~reqs[r].hung
    /\ RBecomes([RCur EXCEPT !.reqs[r].hung = TRUE])

RelayNext ==
    \/ \E r \in Reqs : \E body \in Bodies : Receive(r, body)
    \/ \E r \in Reqs : \E out \in AgentOutputs : AgentExit(r, out)
    \/ \E r \in Reqs : AgentHangs(r)

(***************************************************************************)
(* _detect_executable called again and again while binaries are installed  *)
(* and removed.                                                            *)
(***************************************************************************)
MaxResolves == 3

\* The installation paths that are installed and removed in the model.
DiskPaths == {"~/go/bin/openclaw", "/usr/local/bin/clawdbot", "/opt/homebrew/bin/moltbot"}

\* The binary names that are put on and taken off the search path.
PathNames == {"clawdbot", "openclaw", "moltbot"}

LocatorInit ==
    /\ RelayQuiet
    /\ on_path \in SUBSET PathNames
    /\ on_disk \in SUBSET DiskPaths

\* _detect_executable is called (lines 33-66): what it returns is kept in
\* _cached_executable (lines 41, 63; a None result leaves the cache None).
Resolve ==
    /\ Len(resolved) < MaxResolves
    /\ LET exe == DetectExecutable(cached_executable, on_path, on_disk)
       IN  /\ cached_executable' = exe
           /\ resolved' = Append(resolved, exe)
    /\ UNCHANGED <<message_count, on_path, on_disk, uuids, reqs, tvars, pvars, avars>>

\* A binary appears on, or disappears from, the search path.
PathChange ==
    /\ \E name \in PathNames :
           on_path' = IF name \in on_path THEN on_path \ {name} ELSE on_path \cup {name}
    /\ UNCHANGED <<message_count, cached_executable, on_disk, uuids, reqs, resolved,
                   tvars, pvars, avars>>

\* An executable file appears at, or disappears from, an installation path.
DiskChange ==
    /\ \E path \in DiskPaths :
           on_disk' = IF path \in on_disk THEN on_disk \ {path} ELSE on_disk \cup {path}
    /\ UNCHANGED <<message_count, cached_executable, on_path, uuids, reqs, resolved,
                   tvars, pvars, avars>>

LocatorNext == Resolve \/ PathChange \/ DiskChange

(***************************************************************************)
(* Reply-text assembly applied to every short list of payloads.            *)
(***************************************************************************)
MaxPayloads == 3

Fragments == {<<>>, <<"a">>, <<"b">>, <<" ">>, <<" ", "a">>, <<"a", "\n">>}

Payloads == {NoTextPayload} \cup {TextPayload(f) : f \in Fragments}

PayloadLists == UNION {[1..n -> Payloads] : n \in 0..MaxPayloads}

NotExtracted == [done |-> FALSE, text |-> <<>>]

ReplyOff ==
    /\ in_payloads = <<>>
    /\ out_reply = NotExtracted

ReplyInit ==
    /\ in_payloads \in PayloadLists
    /\ out_reply = NotExtracted

\* handle_line_webhook, lines 221-238, on the payloads at hand.
Extract ==
    /\ ~out_reply.done
    /\ out_reply' = [done |-> TRUE, text |-> ResponseText(in_payloads)]
    /\ UNCHANGED <<in_payloads, tvars, rvars, avars, lvars>>

\* The agent returns another list of payloads.
NextPayloads ==
    /\ out_reply.done
    /\ in_payloads' \in PayloadLists
    /\ out_reply' = NotExtracted
    /\ UNCHANGED <<tvars, rvars, avars, lvars>>

ReplyNext == Extract \/ NextPayloads

(***************************************************************************)
(* Endpoint acquisition: the loop of _start_tunnel (lines 159-186) over    *)
(* the lines the subprocess writes to stderr.  A line is a sequence of     *)
(* pieces of text; the scheme and the provider's domain are one piece each.*)
(***************************************************************************)
MaxLineLen == 5

\* Lines without a URL that one acquisition may read.
MaxLines == 3

Scheme == "https://"

Suffix == ".trycloudflare.com"

Pieces == {Scheme, "http://", "a", "b", "A", ".", Suffix, " "}

Lines == UNION {[1..n -> Pieces] : n \in 0..MaxLineLen}

NoUrl == <<>>

\* Seeded fault: the label of the pattern also takes upper-case letters.
IsLabelAnyCase(c) == c \in {"a", "b", "A"}

\* url_pattern, line 159: [a-z0-9-]
IsLabel(c) == c \in {"a", "b"}

RECURSIVE LabelEnd(_, _)
\* url_pattern, line 159: [a-z0-9-]+ from position i; the position after the label.
LabelEnd(line, i) ==
    IF i <= Len(line) /\ IsLabel(line[i]) THEN LabelEnd(line, i + 1) ELSE i

\* url_pattern, line 159, tried at position i: the position the match ends at, or 0.
MatchAt(line, i) ==
    IF line[i] # Scheme
    THEN 0
    ELSE LET j == LabelEnd(line, i + 1)
         IN  IF j > i + 1 /\ j <= Len(line) /\ line[j] = Suffix THEN j ELSE 0

RECURSIVE SearchFrom(_, _)
SearchFrom(line, i) ==
    IF i > Len(line) THEN NoUrl
    ELSE IF MatchAt(line, i) # 0 THEN SubSeq(line, i, MatchAt(line, i))
    ELSE SearchFrom(line, i + 1)

\* Lines 182-184: url_pattern.search(line_text), and match.group(1) of the match.
Search(line) == SearchFrom(line, 1)

\* The places of a line where an https URL of the ephemeral subdomain stands:
\* the scheme, a host label, the provider's domain.
UrlSpans(line) ==
    {s \in (1..Len(line)) \X (1..Len(line)) :
        /\ s[1] + 1 < s[2]
        /\ line[s[1]] = Scheme
        /\ line[s[2]] = Suffix
        /\ \A k \in (s[1] + 1)..(s[2] - 1) : line[k] \in {"a", "b"}}

HasTunnelUrl(line) == UrlSpans(line) # {}

\* The first such URL of the line.
FirstTunnelUrl(line) ==
    LET s == CHOOSE s \in UrlSpans(line) : \A u \in UrlSpans(line) : s[1] <= u[1]
    IN  SubSeq(line, s[1], s[2])

\* _start_tunnel, lines 159-163: the subprocess runs, nothing was read.
\* ignored and missed are history: the lines read without a match, and whether one
\* of them held a URL of the ephemeral subdomain.
AcqInit ==
    acq = [state |-> "waiting", url |-> NoUrl, line |-> <<>>, ignored |-> 0,
           missed |-> FALSE]

\* Lines 181-186 on one line: a match is recorded and returned, no match goes on.
ReadLine(a, line) ==
    IF Search(line) # NoUrl
    THEN [a EXCEPT !.state = "connected", !.url = Search(line), !.line = line]
    ELSE [a EXCEPT !.ignored = @ + 1, !.missed = @ \/ HasTunnelUrl(line)]

\* Lines 169-186: readline returns a line.
AcqLine ==
    /\ acq.state = "waiting"
    /\ acq.ignored < MaxLines
    /\ \E line \in Lines : acq' = ReadLine(acq, line)
    /\ UNCHANGED <<tvars, rvars, pvars, lvars>>

\* Lines 164-167: 30 s have passed without a match.
AcqTimeout ==
    /\ acq.state = "waiting"
    /\ acq' = [acq EXCEPT !.state = "timeout"]
    /\ UNCHANGED <<tvars, rvars, pvars, lvars>>

\* Lines 177-179: the stream is closed.
AcqEof ==
    /\ acq.state = "waiting"
    /\ acq' = [acq EXCEPT !.state = "failed"]
    /\ UNCHANGED <<tvars, rvars, pvars, lvars>>

AcqNext ==
    \/ AcqLine
    \/ AcqTimeout
    \/ AcqEof

(***************************************************************************)
(* Properties of the supervisor.                                           *)
(***************************************************************************)
AliveProcs == {p \in Procs : procs[p] = "alive"}

\* C1: when a reconnection procedure has returned, the supervisor still running
\* (no stop() since start()), after N subprocess exits (the exit the monitor
\* detected and the exits that closed the stream of a reconnect attempt; no startup
\* timeout) with N < max_retries, the procedure has made exactly N attempts and the
\* supervisor is Connected.
C1_AttemptsEqualExits ==
    (/\ hist.rc_done
     /\ hist.stop = "no"
     /\ hist.outage.timeouts = 0
     /\ hist.outage.exits < MaxRetries)
    => (/\ hist.outage.attempts = hist.outage.exits
        /\ hist.state = "Connected")

\* The supervisor transitions to Failed at most once per start().
FailedAtMostOnce == hist.failedN <= 1

\* Once the retry bound is exhausted, and until start() is called again, no
\* reconnect attempt is made, no subprocess is spawned and no reconnect or error
\* callback is fired.
QuietAfterFailed ==
    [][(hist.failed /\ hist'.failed)
       => (/\ hist'.attempts = hist.attempts
           /\ {p \in Procs : procs'[p] # "none"} = {p \in Procs : procs[p] # "none"}
           /\ hist'.cb.reconnect = hist.cb.reconnect
           /\ hist'.cb.error = hist.cb.error)]_vars

\* C2: when the attempts of a reconnection procedure are exhausted the supervisor
\* transitions to Failed exactly once, and then makes no further reconnect attempt
\* (no spawn, no reconnect or error callback) until start() is called.
C2_FailedOnceThenQuiet == []FailedAtMostOnce /\ QuietAfterFailed

\* stop() has returned, and start() was not called since.
StopReturned == hist.stop = "returned"

\* C3: once stop() has returned, whatever the state it was called in, the endpoint
\* is empty, no subprocess is alive, no monitor task is recorded and the state is
\* Disconnected.
C3_StopLeavesDisconnected ==
    StopReturned => (/\ tunnel_url = None
                     /\ AliveProcs = {}
                     /\ monitor_task = None
                     /\ hist.state = "Disconnected")

\* C4: at most one tunnel subprocess is alive.
C4_OneLiveSubprocess == Cardinality(AliveProcs) <= 1

\* C5: the recorded endpoint is non-empty exactly when the supervisor is Connected.
C5_UrlIffConnected == (tunnel_url # None) <=> (hist.state = "Connected")

\* After stop() has returned, and until start() is called, the supervisor spawns no
\* subprocess, fires no callback and changes no statistic.
QuietAfterStop ==
    [][(hist.stop = "returned" /\ hist'.stop = "returned")
       => (/\ {p \in Procs : procs'[p] # "none"} = {p \in Procs : procs[p] # "none"}
           /\ hist'.cb = hist.cb
           /\ stats' = stats)]_vars

\* C6: stop() never raises to its caller, at whatever point it is called, and after
\* it has returned the supervisor spawns nothing, fires no callback and changes no
\* statistic.
C6_StopIsSafe == [](hist.stop # "raised") /\ QuietAfterStop

\* A step in which the last start() ends with this outcome.
StartEnds(outcome) == hist.start.outcome = "running" /\ hist'.start.outcome = outcome

\* start() returns: the endpoint is recorded, the connect callback was fired once
\* and one monitor task, not yet run, was made and recorded.
SucceedsInOrder ==
    [][StartEnds("returned") =>
         /\ tunnel_url' # None
         /\ hist'.cb.connect = hist.cb.connect + 1
         /\ Cardinality({m \in Monitors : task'[m].pc # "idle"})
                = Cardinality({m \in Monitors : task[m].pc # "idle"}) + 1
         /\ monitor_task' \in Monitors
         /\ task[monitor_task'].pc = "idle"
         /\ task'[monitor_task'].pc = "created"]_vars

\* start() raises: no connect callback, no monitor task.
FailsWithoutEffect ==
    [][StartEnds("raised") =>
         /\ hist'.cb.connect = hist.cb.connect
         /\ \A m \in Monitors : task'[m].pc = "idle" <=> task[m].pc = "idle"
         /\ monitor_task' = monitor_task]_vars

\* What start() has done so far, in its order.
StartEvents ==
    /\ hist.start.outcome = "returned" => hist.start.events = <<"url", "connect", "monitor">>
    /\ hist.start.outcome = "raised" => hist.start.events = <<>>
    /\ hist.start.outcome = "running" => hist.start.events = <<>>

\* C14: a start() that succeeds has recorded the endpoint, then fired the connect
\* callback once, then launched one monitor task; a start() that fails has fired no
\* connect callback and launched no monitor task.
C14_StartAllOrNothing == []StartEvents /\ SucceedsInOrder /\ FailsWithoutEffect

\* start() has raised.
StartFailed == hist.start.outcome = "raised"

\* The processes spawned so far, after the step.
SpawnedNext == {p \in Procs : procs'[p] # "none"}

\* One call of start() spawns the binary at most once.
OneSpawnPerStart == hist.start.spawns <= 1

\* A start() that fails ends there: the step in which it raises spawns nothing,
\* makes no reconnect attempt and no monitor task, and leaves start() finished.
FailureIsFinal ==
    [][StartEnds("raised") =>
         /\ SpawnedNext = Spawned(Cur)
         /\ hist'.attempts = hist.attempts
         /\ \A m \in Monitors : task'[m].pc = "idle" <=> task[m].pc = "idle"
         /\ task'[Caller] = Idle]_vars

\* The binary is spawned only by a call of start(), once, and by the reconnection
\* procedure of a monitor task after its delay.
SpawnedOnlyBy ==
    [][SpawnedNext # Spawned(Cur) =>
         \/ /\ task[Caller].pc = "idle"
            /\ hist'.start = [NoStart EXCEPT !.outcome = "running", !.spawns = 1]
         \/ \E m \in Monitors :
               /\ task[m].pc = "rc_delay"
               /\ task'[m].pc = "spawn"
               /\ hist.attempts > 0]_vars

\* While no monitor task was ever made, no reconnection was attempted.
NoMonitorNoReconnection == Created(Cur) = {} => hist.attempts = 0 /\ retry_count = 0

\* C15: a startup failure ends that start(): one start() spawns the binary at most
\* once, a failed initial start() begins no reconnection, and the only other spawns
\* are those of the reconnection procedure run by a monitor task.
C15_StartNeverRetries ==
    /\ [](OneSpawnPerStart /\ NoMonitorNoReconnection)
    /\ FailureIsFinal
    /\ SpawnedOnlyBy

\* The first start() has failed after its one spawn, and its process has exited.
C15_Witness ==
    /\ StartFailed
    /\ hist.start.spawns = 1
    /\ Created(Cur) = {}
    /\ Spawned(Cur) = {1}
    /\ HasExited(Cur, 1)
    /\ task[Caller] = Idle

\* retry_count is 0 when start() returns its URL.
ZeroAfterStart == [][StartEnds("returned") => retry_count' = 0]_vars

\* retry_count is 0 when a reconnection has succeeded.
ZeroAfterReconnect ==
    [][stats'.reconnect_count > stats.reconnect_count => retry_count' = 0]_vars

\* During a reconnection procedure retry_count is the number of its attempts.
OnePerAttempt ==
    hist.state = "Reconnecting" /\ ~hist.rc_done => retry_count = hist.outage.attempts

\* C16: retry_count is 0 after every successful connection or reconnection, a
\* successful start() after Failed included, and grows by one per reconnect attempt.
C16_RetryCount == ZeroAfterStart /\ ZeroAfterReconnect /\ []OnePerAttempt

\* In this step the callback was called and raised.
CallbackRaised(name) == name \in cb_fails /\ hist'.cb[name] > hist.cb[name]

\* What the step does when the connect callback returns: start() returns and one
\* monitor task is made.
ConnectContained ==
    CallbackRaised("connect") =>
        /\ hist'.start.outcome = "returned"
        /\ monitor_task' \in Monitors
        /\ task'[monitor_task'].pc = "created"

\* What the step does when the disconnect callback returns: the reconnection
\* procedure makes its first attempt.
DisconnectContained ==
    CallbackRaised("disconnect") =>
        /\ hist'.attempts > hist.attempts
        /\ \A m \in Monitors : task'[m].pc \notin {"spin", "crashed"}

\* What the step does when the reconnect callback returns: the procedure ends with
\* retry_count 0 and the new subprocess is kept.
ReconnectContained ==
    CallbackRaised("reconnect") =>
        /\ retry_count' = 0
        /\ hist'.rc_done
        /\ hist'.attempts = hist.attempts
        /\ process' = process

\* What the step does when the error callback returns: the monitor task goes on.
ErrorContained ==
    CallbackRaised("error") => \A m \in Monitors : task'[m].pc \notin {"spin", "crashed"}

\* C17: a callback that raises changes nothing in the supervisor: the step makes the
\* transitions, spawns, terminations and counter updates it makes when the callback
\* returns.
C17_CallbackFailureContained ==
    [][ConnectContained /\ DisconnectContained /\ ReconnectContained
          /\ ErrorContained]_vars

\* The step in which the retry bound is found exhausted (lines 253-255).
EntersFailed == hist'.failedN > hist.failedN

\* The callback called last when Failed is entered is not the error callback of
\* a failed attempt.
TerminalSurfaced == [][EntersFailed => hist'.last_cb # "error"]_vars

\* While Failed, no further attempt and no further spawn.
StopsRecovery ==
    [][hist.failed /\ hist'.failed =>
         hist'.attempts = hist.attempts /\ SpawnedNext = Spawned(Cur)]_vars

\* C18: when the retries are exhausted, the supervisor calls a callback other than
\* the per-attempt error callback to report the terminal state, and then makes no
\* further attempt.
C18_TerminalStateSurfaced == TerminalSurfaced /\ StopsRecovery

\* The monitor tasks that are inside _reconnect (suspended at one of its awaits).
InReconnect ==
    {m \in Monitors : task[m].pc \in {"rc_stop", "rc_delay", "spawn", "read", "comm"}}

\* At most one reconnection procedure is in progress.
OneReconnection == Cardinality(InReconnect) <= 1

\* While a reconnection procedure is in progress no exit is detected: the disconnect
\* counter stands and no disconnect callback is called.
NoCheckDuringReconnection ==
    [][InReconnect # {} =>
         /\ stats'.disconnected_count = stats.disconnected_count
         /\ hist'.cb.disconnect = hist.cb.disconnect]_vars

\* C23: the monitor loop and the reconnection procedure never overlap: at most one
\* reconnection procedure is in progress, and until it has ended no exit check is
\* made and no disconnect callback is called.
C23_NoOverlap == []OneReconnection /\ NoCheckDuringReconnection

\* Nothing is left of the tunnel: no handle, no live subprocess, no monitor task,
\* no endpoint, and the state is Disconnected.
Stopped ==
    /\ process = None
    /\ AliveProcs = {}
    /\ monitor_task = None
    /\ tunnel_url = None
    /\ hist.state = "Disconnected"

\* start() was never called.
NeverStarted == hist.start.outcome = "none"

\* stop() was called again with no start() in between, or on a supervisor that was
\* never started, and that call has ended.
StoppedAgain ==
    /\ hist.stop \in {"returned", "raised"}
    /\ hist.stops = 2 \/ NeverStarted

\* C25: a stop() called a second time, or on a supervisor never started, raises
\* nothing and leaves no subprocess, no monitor task, no endpoint, and the state
\* Disconnected.
C25_StopIdempotent == StoppedAgain /\ stopper.pc = "idle" => hist.stop = "returned" /\ Stopped

\* This step detects an exit: the counter or the callback count changes.
Detects ==
    \/ stats'.disconnected_count # stats.disconnected_count
    \/ hist'.cb.disconnect # hist.cb.disconnect

\* A detection counts one disconnect and calls the disconnect callback once, for a
\* subprocess that has exited.
CountedAndCalledOnce ==
    [][Detects =>
         /\ stats'.disconnected_count = stats.disconnected_count + 1
         /\ hist'.cb.disconnect = hist.cb.disconnect + 1
         /\ process # None /\ HasExited(Cur, process)]_vars

\* No exit is detected twice.
OncePerExit == \A p \in Procs : hist.detected[p] <= 1

\* The count and the callback come first in an outage, before the first attempt
\* and before any reconnect or error callback.
DetectionFirst ==
    Len(hist.outage.log) >= 2 =>
        {hist.outage.log[1], hist.outage.log[2]} = {"count", "disconnect"}

\* C27: for each exit the monitor detects, the disconnect counter grows by one and
\* the disconnect callback is called once, both before the first reconnect attempt
\* and before any reconnect or error callback of the outage.
C27_DisconnectOncePerExit == [](OncePerExit /\ DetectionFirst) /\ CountedAndCalledOnce

\* This step ends a reconnect attempt that acquired an endpoint: the counter or
\* the callback count changes.
ReconnectSucceeds ==
    \/ stats'.reconnect_count # stats.reconnect_count
    \/ hist'.cb.reconnect # hist.cb.reconnect

\* The counter grows by one and the callback is called once, with the endpoint just
\* recorded and the number of the attempt.
ReconnectReported ==
    [][ReconnectSucceeds =>
         /\ stats'.reconnect_count = stats.reconnect_count + 1
         /\ hist'.cb.reconnect = hist.cb.reconnect + 1
         /\ hist'.reconnected.url # None
         /\ hist'.reconnected.url = tunnel_url'
         /\ hist'.reconnected.attempt \in 1..MaxRetries
         /\ \E m \in InReconnect :
                task'[m].pc = "sleep" /\ hist'.reconnected.attempt = hist.own[m]]_vars

\* The attempt counter is reset and the procedure returns: no further attempt, the
\* monitor back in its sleep, and no connect callback.
ReconnectReturns ==
    [][ReconnectSucceeds =>
         /\ retry_count' = 0
         /\ hist'.rc_done
         /\ hist'.attempts = hist.attempts
         /\ \E m \in InReconnect : task'[m].pc = "sleep"
         /\ hist'.cb.connect = hist.cb.connect]_vars

\* C28: when a reconnect attempt acquires an endpoint, the reconnect counter grows by
\* one, the reconnect callback is called once with the new endpoint and the attempt
\* number k (1 <= k <= max_retries), the attempt counter is reset to 0 and the
\* procedure returns with no further attempt; the connect callback is not called.
C28_ReconnectSuccess == ReconnectReported /\ ReconnectReturns

\* The monitor task that takes this step.
Stepping == {m \in Monitors : task'[m] # task[m]}

\* Monitor m is in a reconnect attempt during this step: it was in one before the
\* step or begins one in it.
Attempting(m) == m \in InReconnect \/ hist'.attempts > hist.attempts

\* This step ends a reconnect attempt in a failure: the error callback is called by
\* a monitor that is in an attempt.
AttemptFails == hist'.cb.error # hist.cb.error /\ \E m \in Stepping : Attempting(m)

\* The attempts of monitor m that end in this step otherwise than in a success or a
\* cancellation: those it had or began, less the one it is left in, the one that
\* returned with a new endpoint and the one that was cancelled.
FailuresOf(m) ==
    (hist'.attempts - hist.attempts)
        + (IF m \in InReconnect THEN 1 ELSE 0)
        - (IF task'[m].pc \in {"rc_stop", "rc_delay", "spawn", "read", "comm"} THEN 1 ELSE 0)
        - (IF hist'.cb.reconnect # hist.cb.reconnect /\ "reconnect" \notin cb_fails
           THEN 1 ELSE 0)
        - (hist'.abandoned - hist.abandoned)

\* The error callback is called once for every attempt that fails.
ErrorOncePerFailure ==
    [][\A m \in Stepping :
          Attempting(m) => hist'.cb.error - hist.cb.error = FailuresOf(m)]_vars

\* The step that calls the error callback has recorded an error.
ErrorRecorded == [][AttemptFails => stats'.last_error # "None"]_vars

\* After a failure the procedure goes on with one more attempt, unless the supervisor
\* was stopped or the attempts are used up: a monitor that is back in its sleep after
\* a failure has found one of the two.
ContinuesAfterFailure ==
    [][AttemptFails =>
         \A m \in Stepping :
            \/ /\ task'[m].pc \in {"rc_stop", "rc_delay"}
               /\ hist'.attempts > hist.attempts
               /\ retry_count' <= MaxRetries
            \/ /\ task'[m].pc = "sleep"
               /\ ~should_run'
               /\ (stopper.pc # "idle" \/ hist.stop # "no" \/ retry_count' >= MaxRetries)]_vars

\* C29: when a reconnect attempt fails, the error is recorded as the last error, the
\* error callback is called exactly once for that attempt, and the procedure goes on
\* with the next attempt as long as the attempts are below max_retries and the
\* supervisor has not been stopped.
C29_FailedAttempt == ErrorOncePerFailure /\ ErrorRecorded /\ ContinuesAfterFailure

\* Monitor m spawns a subprocess in this step (line 152 of its _start_tunnel).
Spawns(m) == task[m].pc # "spawn" /\ task'[m].pc = "spawn"

\* Monitor m begins the retry delay in this step (line 232).
Delays(m) == task[m].pc # "rc_delay" /\ task'[m].pc = "rc_delay"

\* The delay begins with the handle cleared; after a wait for the stale subprocess
\* it begins only when that subprocess has exited or was killed, and the handle that
\* is cleared is the handle of that subprocess.
StopBeforeDelay ==
    [][\A m \in Monitors :
          Delays(m) => /\ process' = None
                       /\ task[m].pc = "rc_stop" =>
                              /\ procs'[task[m].on] \in {"exited", "closed"}
                              /\ process \in {None, task[m].on}]_vars

\* A monitor spawns only when its retry delay has elapsed.
DelayBeforeSpawn == [][\A m \in Monitors : Spawns(m) => task[m].pc = "rc_delay"]_vars

\* A monitor spawns only with the handle cleared.
NoSpawnWhileHeld == [][\A m \in Monitors : Spawns(m) => process = None]_vars

\* C30: in each reconnect attempt the stale subprocess is terminated and its exit
\* awaited (killed after the bounded wait) and its handle cleared, then the retry
\* delay elapses, and only then a new subprocess is spawned; none is spawned while
\* the previous handle is still held.
C30_AttemptOrder == StopBeforeDelay /\ DelayBeforeSpawn /\ NoSpawnWhileHeld

\* No subprocess is left to spawn within the bound of the model.
OutOfProcs == ~CanSpawn(Cur)

\* The subprocess of a connected, running supervisor has exited and the exit was
\* not detected yet.
ExitPending(p) ==
    /\ process = p
    /\ procs[p] \in {"exited", "closed"}
    /\ should_run
    /\ hist.state = "Connected"
    /\ hist.detected[p] = 0

\* The exit is detected in the end, unless stop() or start() take the subprocess
\* over first.
ExitDetected ==
    \A p \in Procs :
        ExitPending(p) ~> (hist.detected[p] > 0 \/ ~should_run \/ process # p)

\* The supervisor does not stay Reconnecting: it becomes Connected or Failed, or
\* stop() is called.
LeavesReconnecting ==
    (hist.state = "Reconnecting")
        ~> \/ hist.state \in {"Connected", "Failed", "Disconnected"}
           \/ hist.stop # "no"
           \/ OutOfProcs

\* C31: under fairness, an exit of the tunnel subprocess while the supervisor runs
\* is detected by the monitor in the end, and the supervisor then reaches Connected
\* again, or Failed, or Disconnected through stop(): it neither stays Reconnecting
\* for ever nor loops for ever without a wait between its polls.
C31_ExitLeadsToRecovery == ExitDetected /\ LeavesReconnecting

\* C34: the reconnect counter never exceeds the disconnect counter: a detected
\* disconnect is followed by at most one successful reconnect.
C34_ReconnectsWithinDisconnects == stats.reconnect_count <= stats.disconnected_count

\* The attempt counter stays within its bound.
RetryCountInRange == retry_count \in 0..max_retries

\* The attempts a reconnection procedure has made are all in the counter, so that
\* the bound on the counter bounds the attempts, and the spawns, of the procedure.
AttemptsCounted ==
    \A m \in InReconnect : hist.own[m] <= retry_count /\ hist.own[m] <= max_retries

\* With max_retries = 0 no attempt is ever made and no monitor spawns.
NoRetriesNoAttempt == max_retries = 0 => hist.attempts = 0 /\ InReconnect = {}

\* With max_retries = 0 the step that detects an exit enters Failed and spawns
\* nothing.
NoRetriesFailsAtOnce ==
    [][max_retries = 0 /\ stats'.disconnected_count # stats.disconnected_count =>
         /\ hist'.state = "Failed"
         /\ ~should_run'
         /\ procs' = procs]_vars

StopSteps ==
    \/ StopCall \/ StopJoin \/ StopWaited \/ StopWaitTimeout
    \/ \E m \in Monitors : MonCancelled(m)

\* C36: stop() changes only the running flag, the monitor task, the process handle
\* and the recorded endpoint: the disconnect counter, the reconnect counter, the last
\* error, the connect timestamp and the retry counter are as they were.
C36_StopFrame ==
    [][StopSteps => /\ stats' = stats
                    /\ retry_count' = retry_count
                    /\ max_retries' = max_retries]_vars

\* stop() has returned on a supervisor that had connected, counted a disconnect,
\* recorded an error and was inside a reconnection procedure: all of it is still
\* recorded.
C36_Witness ==
    /\ hist.stop = "returned"
    /\ ~should_run /\ monitor_task = None /\ process = None /\ tunnel_url = None
    /\ stats.connected_at # None
    /\ stats.disconnected_count > 0
    /\ stats.last_error # "None"
    /\ retry_count > 0

(***************************************************************************)
(* Properties of the relay.                                                *)
(***************************************************************************)
Arrived == {r \in Reqs : reqs[r].pc # "none"}

Answered == {r \in Reqs : reqs[r].pc = "done"}

TextRequests == {r \in Arrived : reqs[r].body.kind = "object" /\ reqs[r].body.msg = "text"}

\* C7: two text events of different users, in flight together or not, are two
\* invocations of their own: each has its own idempotency key, each runs in the
\* session line:<userId> of its user, the two sessions differ, and each invocation
\* has one subprocess of its own (none only when no executable was located).
C7_IndependentInvocations ==
    \A r1 \in TextRequests : \A r2 \in TextRequests :
        (r1 # r2 /\ reqs[r1].body.userId # reqs[r2].body.userId) =>
            /\ reqs[r1].inv.called /\ reqs[r2].inv.called
            /\ reqs[r1].inv.idempotencyKey # reqs[r2].inv.idempotencyKey
            /\ reqs[r1].inv.sessionId = SessionId(reqs[r1].body.userId)
            /\ reqs[r2].inv.sessionId = SessionId(reqs[r2].body.userId)
            /\ reqs[r1].inv.sessionId # reqs[r2].inv.sessionId
            /\ \A r \in {r1, r2} :
                   reqs[r].spawned = IF reqs[r].inv.executable = NoExecutable THEN 0 ELSE 1

\* Two text events of different users are in flight at once, a subprocess each.
C7_Witness ==
    \E r1 \in Reqs : \E r2 \in Reqs :
        /\ reqs[r1].pc = "agent" /\ reqs[r2].pc = "agent"
        /\ reqs[r1].body.userId = "U1" /\ reqs[r2].body.userId = "U2"
        /\ reqs[r1].spawned = 1 /\ reqs[r2].spawned = 1

\* Answered events whose message type is not text: another type, or no type at all.
NonTextAnswered ==
    {r \in Answered : reqs[r].body.kind = "object"
                      /\ reqs[r].body.msg \in {"image", "notype", "absent", "notobject"}}

NotInvoked(r) == reqs[r].inv = NoInvocation /\ reqs[r].spawned = 0

\* C8: (as stated) an event whose message type is not text invokes no agent and is
\* answered 200 {success: true, reason: "unsupported"}.
C8_NonTextUnsupported ==
    \A r \in NonTextAnswered :
        /\ NotInvoked(r)
        /\ reqs[r].resp = [status |-> 200, json |-> [success |-> TRUE, reason |-> "unsupported"]]

\* C8: (amended) an event of the documented shape (its message an object, or absent)
\* whose message type is not text invokes no agent and is answered
\* 200 {success: true, reason: "Non-text message not yet supported"}.
C8_NonTextNotYetSupported ==
    \A r \in NonTextAnswered :
        WellFormed(reqs[r].body) =>
            /\ NotInvoked(r)
            /\ reqs[r].resp = [status |-> 200,
                               json |-> [success |-> TRUE,
                                         reason |-> "Non-text message not yet supported"]]

\* An image event and an event without a message type have both been answered.
C8_Witness ==
    \E r1 \in NonTextAnswered : \E r2 \in NonTextAnswered :
        /\ reqs[r1].body.msg = "image" /\ reqs[r2].body.msg = "notype"
        /\ reqs[r1].resp.status = 200 /\ reqs[r2].resp.status = 200

\* The reply text the specification describes: the non-empty texts joined by newlines.
NonEmptyTexts(payloads) ==
    LET keep == SelectSeq(payloads, LAMBDA p : p.has /\ Len(p.text) > 0)
    IN  [i \in 1..Len(keep) |-> keep[i].text]

RECURSIVE NewlineJoin(_)
NewlineJoin(texts) ==
    IF texts = <<>> THEN <<>>
    ELSE IF Len(texts) = 1 THEN Head(texts)
    ELSE Head(texts) \o <<"\n">> \o NewlineJoin(Tail(texts))

\* C9: (as stated) the extracted reply text is the newline-joined concatenation of
\* the non-empty payload texts, in their order.
C9_ReplyIsJoin ==
    out_reply.done => out_reply.text = NewlineJoin(NonEmptyTexts(in_payloads))

\* C9: (amended) the extracted reply text is the newline-joined concatenation of the
\* non-empty payload texts, in their order, with the whitespace at its two ends removed.
C9_ReplyIsStrippedJoin ==
    out_reply.done => out_reply.text = Strip(NewlineJoin(NonEmptyTexts(in_payloads)))

\* Two different non-empty texts around a payload without text have been joined.
C9_Witness ==
    /\ out_reply.done
    /\ Len(in_payloads) = 3
    /\ in_payloads[1] = TextPayload(<<"a">>)
    /\ in_payloads[2] = NoTextPayload
    /\ in_payloads[3] = TextPayload(<<"b">>)
    /\ out_reply.text = <<"a", "\n", "b">>

Malformed == {r \in Answered : reqs[r].body.kind = "malformed"}

FailedInvocations ==
    {r \in Answered : /\ reqs[r].inv.called
                      /\ \/ reqs[r].inv.executable = NoExecutable
                         \/ reqs[r].out.exit # 0
                         \/ ~reqs[r].out.json}

\* C12: every failed invocation (no executable, and then no subprocess; a non-zero
\* exit, reported with the stderr; a stdout that is not JSON) is returned by run_agent
\* as {ok: false, error} and answered 200 {success: true, response: null}.
C12_FailureIsNullReply ==
    \A r \in FailedInvocations :
        /\ reqs[r].result.ok = FALSE
        /\ "error" \in DOMAIN reqs[r].result
        /\ reqs[r].inv.executable = NoExecutable => reqs[r].spawned = 0
        /\ (reqs[r].inv.executable # NoExecutable /\ reqs[r].out.exit # 0)
               => reqs[r].result.error = Strip(reqs[r].out.stderr)
        /\ reqs[r].resp = [status |-> 200, json |-> [success |-> TRUE, response |-> JsonNull]]

\* One invocation failed with a non-zero exit and a message on stderr, another with
\* a stdout that is not JSON.
C12_Witness ==
    \E r1 \in FailedInvocations : \E r2 \in FailedInvocations :
        /\ reqs[r1].out.exit = 1 /\ reqs[r1].result.error = <<"e">>
        /\ reqs[r2].inv.executable # NoExecutable
        /\ reqs[r2].out.exit = 0 /\ ~reqs[r2].out.json

\* Answered text events whose invocation succeeded: the subprocess exited with
\* status 0 and wrote a JSON object.
Succeeded ==
    {r \in Answered : /\ reqs[r].inv.called
                      /\ reqs[r].inv.executable # NoExecutable
                      /\ reqs[r].out.exit = 0
                      /\ reqs[r].out.json
                      /\ reqs[r].out.doc.object}

\* The reply text of a document (C9, as amended).
ReplyTextOf(doc) == Strip(NewlineJoin(NonEmptyTexts(doc.payloads)))

\* C13: a text event whose invocation succeeded is answered
\* {success: true, response: {text, raw}} when the reply text is not empty, raw being
\* the parsed document unchanged, and {success: true, response: null} when it is empty.
C13_ReplyOrNull ==
    \A r \in Succeeded :
        reqs[r].resp =
            [status |-> 200,
             json |-> [success |-> TRUE,
                       response |-> IF ReplyTextOf(reqs[r].out.doc) # <<>>
                                    THEN [text |-> ReplyTextOf(reqs[r].out.doc),
                                          raw |-> reqs[r].out.doc]
                                    ELSE JsonNull]]

\* Requests whose handler awaits the agent subprocess (line 114).
Invoking == {r \in Reqs : reqs[r].pc = "agent"}

\* Some step of the relay ends the invocation of request r with its response.
InvokeReturns(r) == RelayNext /\ reqs'[r].pc = "done"

\* C19: an invocation that awaits its subprocess can always still return: when the
\* subprocess will not exit by itself, a timeout of the invoker ends the wait.
C19_InvokeAlwaysReturns == \A r \in Invoking : ENABLED InvokeReturns(r)

\* The text events a webhook can carry.
TextBodies == {body \in Bodies : body.kind = "object" /\ body.msg = "text"}

\* The next request to arrive.
NextRequest == {r \in Reqs : reqs[r].pc = "none" /\ \A q \in Reqs : q < r => reqs[q].pc # "none"}

\* An agent executable is installed where the invoker looks for it.
AgentInstalled ==
    LET exe == DetectExecutable(cached_executable, on_path, on_disk)
    IN  exe # NoExecutable /\ Installed(exe, on_path, on_disk)

\* Whatever the other requests are doing, the next text event is handled up to the
\* spawn of its own subprocess, and a subprocess that ends is answered.
NeverBlocked ==
    /\ \A r \in NextRequest : \A body \in TextBodies :
           AgentInstalled =>
               ENABLED (Receive(r, body) /\ reqs'[r].pc = "agent" /\ reqs'[r].spawned = 1)
    /\ \A r \in Invoking : \A out \in AgentOutputs :
           ~reqs[r].hung => ENABLED (AgentExit(r, out) /\ reqs'[r].pc = "done")

\* A step of one request leaves the records of the other requests as they are.
OwnRecordOnly ==
    [][\A r \in Reqs : reqs'[r] # reqs[r] =>
           \A q \in Reqs \ {r} : reqs'[q] = reqs[q]]_vars

\* Of the invoker's state, an invocation writes the executable cache alone, and
\* only when it looks the executable up (it writes nothing when it returns).
CacheOnlyShared ==
    [][\A r \in Invoking : reqs'[r].pc = "done" =>
           UNCHANGED <<cached_executable, on_path, on_disk, uuids, message_count>>]_vars

\* C20: an invocation whose subprocess has not finished never keeps another request
\* from spawning its own subprocess and being answered, and invocations share no
\* state but the executable cache.
C20_ConcurrentInvocations == []NeverBlocked /\ OwnRecordOnly /\ CacheOnlyShared

\* A request of the same user was answered after its own subprocess ended, while
\* the subprocess of the request before it is still running and will not exit.
C20_Witness ==
    \E r1 \in Reqs : \E r2 \in Reqs :
        /\ r1 < r2
        /\ reqs[r1].pc = "agent" /\ reqs[r1].hung
        /\ reqs[r2].pc = "done" /\ reqs[r2].spawned = 1 /\ reqs[r2].out.exit = 0
        /\ reqs[r1].body.userId = reqs[r2].body.userId

\* Answered requests whose handling met an internal fault: a body that is JSON but
\* not an object, a message that is not an object, or an agent document that is not
\* an object.
Faulted ==
    {r \in Answered :
        \/ reqs[r].body.kind = "array"
        \/ reqs[r].body.kind = "object" /\ reqs[r].body.msg = "notobject"
        \/ /\ reqs[r].spawned = 1
           /\ reqs[r].out.exit = 0 /\ reqs[r].out.json /\ ~reqs[r].out.doc.object}

\* A fault is answered 500 with an error field.
FaultIs500 ==
    \A r \in Faulted : reqs[r].resp.status = 500 /\ "error" \in DOMAIN reqs[r].resp.json

\* After a fault the next request, whatever its body, is still taken in.
StillServing ==
    Faulted # {} => \A r \in NextRequest : \A body \in Bodies : ENABLED Receive(r, body)

\* The relay with the faulted requests taken out of its history.
Unfaulted == [RCur EXCEPT !.reqs = [q \in Reqs |-> IF q \in Faulted THEN NoRequest ELSE @[q]]]

\* A request taken in after a fault is handled as it is without the fault, and a
\* subprocess that ends after a fault is answered by its own output alone.
AsIfNoFault ==
    [][Faulted # {} =>
         \A r \in Reqs :
            /\ reqs[r].pc = "none" /\ reqs'[r].pc # "none" =>
                  reqs'[r] = HandleLineWebhook(Unfaulted, r, reqs'[r].body).reqs[r]
            /\ reqs[r].pc = "agent" /\ reqs'[r].pc = "done" =>
                  reqs'[r].resp = ReplyTo(AgentResult(reqs'[r].out))]_vars

\* C24: an internal fault while a webhook request is handled is answered 500 with an
\* error field, and the relay keeps serving: a later request is handled as if the
\* fault had not happened.
C24_FaultContained == [](FaultIs500 /\ StillServing) /\ AsIfNoFault

\* A request whose agent wrote a JSON document that is not an object was answered
\* 500, and the text event after it was answered with its reply text.
C24_Witness ==
    \E q \in Faulted : \E r \in Answered :
        /\ q < r
        /\ reqs[q].spawned = 1 /\ reqs[q].resp.status = 500
        /\ reqs[r].body.msg = "text"
        /\ reqs[r].resp.status = 200
        /\ "response" \in DOMAIN reqs[r].resp.json
        /\ reqs[r].resp.json.response # JsonNull

\* The requests for which run_agent was called.
Invoked == {r \in Arrived : reqs[r].inv.called}

\* C26: the session id of an invocation is line:<userId>, the same for every
\* invocation of one user, and no two invocations carry the same idempotency key,
\* two invocations for the same event of the same user included.
C26_SessionStableKeyFresh ==
    \A r1 \in Invoked : \A r2 \in Invoked :
        /\ reqs[r1].inv.sessionId = <<"line", reqs[r1].body.userId>>
        /\ reqs[r1].body.userId = reqs[r2].body.userId =>
               reqs[r1].inv.sessionId = reqs[r2].inv.sessionId
        /\ r1 # r2 => reqs[r1].inv.idempotencyKey # reqs[r2].inv.idempotencyKey

\* The same text event of user U1 was submitted twice and invoked twice, the second
\* time while the first invocation was still running.
C26_Witness ==
    /\ Invoked = {1, 2}
    /\ reqs[1].body = reqs[2].body
    /\ reqs[1].body.userId = "U1"
    /\ reqs[1].pc = "agent" /\ reqs[2].pc = "agent"
    /\ reqs[1].inv.message = reqs[2].inv.message

\* The webhook events received so far: the requests whose body is a JSON object.
Events == {r \in Arrived : reqs[r].body.kind = "object"}

\* The counter and the value reported by /health are the number of events received.
CountsReceipts ==
    /\ message_count = Cardinality(Events)
    /\ HealthCheck(RCur).message_count = Cardinality(Events)

\* The requests that arrive in this step.
Arriving == {r \in Reqs : reqs[r].pc = "none" /\ reqs'[r].pc # "none"}

\* The counter never decreases; it grows by one in the step that receives an event,
\* whatever the event is and whatever other requests are being handled, and in no
\* other step.
CountsEachOnce ==
    [][/\ message_count' >= message_count
       /\ \A r \in Arriving :
              reqs'[r].body.kind = "object" => message_count' = message_count + 1
       /\ message_count' # message_count =>
              \E r \in Arriving : reqs'[r].body.kind = "object"]_vars

Replied ==
    {r \in Answered : /\ "response" \in DOMAIN reqs[r].resp.json
                      /\ "text" \in DOMAIN reqs[r].resp.json.response}

FirstName(path) ==
    IF "clawdbot" \in path THEN "clawdbot"
    ELSE IF "openclaw" \in path THEN "openclaw"
    ELSE IF "moltbot" \in path THEN "moltbot"
    ELSE NoExecutable

\* The first of the installation paths, from position i on, that is an executable.
RECURSIVE FirstInstalled(_, _)
FirstInstalled(i, disk) ==
    IF i > Len(InstallPaths) THEN NoExecutable
    ELSE IF InstallPaths[i] \in disk THEN InstallPaths[i]
    ELSE FirstInstalled(i + 1, disk)

\* The first match in the priority order: memoized, search path, installation paths.
FirstMatch(cache, path, disk) ==
    IF cache # NoExecutable THEN cache
    ELSE IF FirstName(path) # NoExecutable THEN FirstName(path)
    ELSE FirstInstalled(1, disk)

\* This step is a call of _detect_executable.
Resolves == Len(resolved') = Len(resolved) + 1

\* C21: a lookup returns the memoized result if there is one, else the first of
\* clawdbot, openclaw, moltbot on the search path, else the first installation path
\* that is an executable, else nothing.
C21_FirstMatchInOrder ==
    [][Resolves =>
         resolved'[Len(resolved')] = FirstMatch(cached_executable, on_path, on_disk)]_vars

\* The first lookup has returned openclaw while moltbot, of lower priority, is on the
\* search path too and every installation path is installed.
C21_Witness ==
    /\ resolved = <<"openclaw">>
    /\ on_path = {"openclaw", "moltbot"}
    /\ on_disk = DiskPaths

\* C22: (as stated) every later lookup returns what the first lookup returned,
\* whatever was installed or removed in between.
C22_FirstResultForLife ==
    \A i \in 1..Len(resolved) : resolved[i] = resolved[1]

\* C22: once a lookup has returned an executable, every later lookup returns the
\* same one, whatever was installed or removed since; a lookup that found nothing
\* is not memoized, and the next lookup searches again.
C22_FoundResultForLife ==
    /\ [](\A i \in 1..Len(resolved) : \A j \in i..Len(resolved) :
              resolved[i] # NoExecutable => resolved[j] = resolved[i])
    /\ [][Resolves /\ cached_executable = NoExecutable =>
            resolved'[Len(resolved')] = FirstMatch(NoExecutable, on_path, on_disk)]_vars

\* The first lookup returned moltbot; since then moltbot was taken off the search
\* path and clawdbot, of higher priority, was put on it; the later lookups returned
\* moltbot.
C22_Witness ==
    /\ resolved = <<"moltbot", "moltbot", "moltbot">>
    /\ on_path = {"clawdbot"}
    /\ on_disk = {}

(***************************************************************************)
(* Properties of endpoint acquisition.                                     *)
(***************************************************************************)
\* C11: a line without an https URL of the ephemeral subdomain is ignored (nothing
\* is recorded and the loop goes on until the timeout or the end of the stream); no
\* line with such a URL is passed over; the first line with one makes the supervisor
\* Connected with exactly that URL recorded.
C11_EndpointExtraction ==
    /\ ~acq.missed
    /\ acq.state = "connected" =>
           (HasTunnelUrl(acq.line) /\ acq.url = FirstTunnelUrl(acq.line))
    /\ acq.state # "connected" => acq.url = NoUrl

\* Two lines were ignored, then a line with the URL between other text connected.
C11_Witness ==
    /\ acq.state = "connected"
    /\ acq.ignored = 2
    /\ acq.line = <<"http://", Scheme, "a", "b", Suffix>>
    /\ acq.url = <<Scheme, "a", "b", Suffix>>

Init == TunnelInit /\ RetriesDefault /\ CallbacksReturn /\ RelayOff /\ ReplyOff /\ AcqInit

Next == TunnelNext

Spec == Init /\ [][Next]_vars

InitRelay == TunnelInit /\ RetriesDefault /\ CallbacksReturn /\ RelayInit /\ ReplyOff /\ AcqInit

SpecRelay == InitRelay /\ [][RelayNext]_vars

InitReply == TunnelInit /\ RetriesDefault /\ CallbacksReturn /\ RelayOff /\ ReplyInit /\ AcqInit

SpecReply == InitReply /\ [][ReplyNext]_vars

InitAcquire == TunnelInit /\ RetriesDefault /\ CallbacksReturn /\ RelayOff /\ ReplyOff /\ AcqInit

SpecAcquire == InitAcquire /\ [][AcqNext]_vars

InitLocator == TunnelInit /\ RetriesDefault /\ CallbacksReturn /\ LocatorInit /\ ReplyOff /\ AcqInit

SpecLocator == InitLocator /\ [][LocatorNext]_vars

InitCallbacks == TunnelInit /\ RetriesDefault /\ CallbacksMayRaise /\ RelayOff /\ ReplyOff /\ AcqInit

SpecCallbacks == InitCallbacks /\ [][Next]_vars

InitRetries == TunnelInit /\ RetriesAny /\ CallbacksReturn /\ RelayOff /\ ReplyOff /\ AcqInit

SpecRetries == InitRetries /\ [][Next]_vars

\* One resumption of task t by the event loop, whatever it was suspended in.
TaskStep(t) ==
    \/ Spawned_(t) \/ ReadUrl(t) \/ ReadEof(t) \/ ReadTimeout(t) \/ ReadRetry(t)
    \/ CommDone(t)
    \/ /\ t \in Monitors
       /\ \/ MonStart(t) \/ MonWake(t) \/ RcStopped(t) \/ RcStopTimeout(t)
          \/ RcDelayDone(t) \/ MonCancelled(t)

\* One resumption of the task that runs stop().
StopStep == StopJoin \/ StopWaited \/ StopWaitTimeout

\* The event loop resumes every task whose await can complete: timers expire, and a
\* ready task is run.  Nothing makes a subprocess exit or print its URL, and nothing
\* makes the caller call start() or stop().
Fairness == WF_vars(StopStep) /\ \A t \in Tasks : WF_vars(TaskStep(t))

SpecLive == Init /\ [][Next]_vars /\ Fairness

SpecCallbacksLive == InitCallbacks /\ [][Next]_vars /\ Fairness
====
